---- MODULE Spec2Model ----
(***************************************************************************)
(* Model of the inner-curvature sheet extractor                            *)
(* (backend/extractors/inner_curvature.py, backend/ocr_engines.py,         *)
(* backend/main.py).                                                       *)
(*                                                                         *)
(* Text is a sequence of one-character strings, so that stripping,         *)
(* replacing and regular-expression search are computed character by       *)
(* character.  Characters outside ASCII are written as their code point    *)
(* ("U+FF0B" is the full-width plus sign).                                 *)
(* A grayscale image is a record [w, h, px] with px[y][x] in 0..255,       *)
(* rows and columns counted from 1.                                        *)
(***************************************************************************)
EXTENDS Integers, Sequences, FiniteSets, TLC

VARIABLES
    call,           \* the pure function under call and its arguments
    ret,            \* what that call returned: None before it returns, then Some(value)
    ocr_log,        \* what the OCR engine returned, call by call
    pc,             \* position of extract_inner_curvature
    job_dir,        \* entries of the job directory when the call starts
    job_id,
    input_path,     \* what _find_input_file returned
    files,          \* image files written into the job directory
    sizes,          \* sizes of page, table, row and field images
    bboxes,         \* diagram_bbox, table_bbox, header_bboxes_px
    header, header_assets, title_raw,
    hkey,           \* header field being processed (index into HeaderKeys)
    idx,            \* row being processed (1..3)
    c,              \* grid sub-cell being processed (0..11)
    cells,          \* parsed cells of the current row
    part_number,
    date_cell,      \* (inspection_date, date_raw) of the current row
    rows_out, row_assets,
    trace,          \* steps executed so far
    result,         \* the returned record (None until the call returns)
    reader_cache,   \* lru_cache of get_easyocr_reader
    constructed,    \* number of easyocr.Reader objects constructed
    thr,            \* request threads running ocr_easy
    used            \* engine instances readtext was called on

vars == << call, ret, ocr_log, pc, job_dir, job_id, input_path, files, sizes, bboxes,
           header, header_assets, title_raw, hkey, idx, c, cells, part_number,
           date_cell, rows_out, row_assets, trace, result,
           reader_cache, constructed, thr, used >>

\* an optional value is << >> (Python's None) or << v >>
None == << >>
Some(v) == << v >>
Val(o) == o[1]

Max(a, b) == IF a >= b THEN a ELSE b
Min(a, b) == IF a <= b THEN a ELSE b

(***************************************************************************)
(* Text                                                                    *)
(***************************************************************************)
Digits == {"0", "1", "2", "3", "4", "5", "6", "7", "8", "9"}
Whitespace == {" ", "\t", "\n"}
FullwidthPlus == "U+FF0B"
FullwidthMinus == "U+FF0D"
EmDash == "U+2014"
EnDash == "U+2013"

IsDigit(ch) == ch \in Digits

RECURSIVE LStrip(_)
LStrip(s) ==
    IF s # << >> /\ Head(s) \in Whitespace THEN LStrip(Tail(s)) ELSE s

RECURSIVE RStrip(_)
RStrip(s) ==
    IF s # << >> /\ s[Len(s)] \in Whitespace
    THEN RStrip(SubSeq(s, 1, Len(s) - 1)) ELSE s

\* str.strip()
Strip(s) == RStrip(LStrip(s))

\* str.replace(a, b) for a single character a; b is a character or nothing
ReplaceChar(s, a, b) == [i \in 1..Len(s) |-> IF s[i] = a THEN b ELSE s[i]]

RemoveChar(s, a) == SelectSeq(s, LAMBDA ch : ch # a)

\* str.replace(old, new) for a sequence old: leftmost, non-overlapping
RECURSIVE ReplaceAll(_, _, _)
ReplaceAll(s, old, new) ==
    IF Len(s) < Len(old) THEN s
    ELSE IF SubSeq(s, 1, Len(old)) = old
         THEN new \o ReplaceAll(SubSeq(s, Len(old) + 1, Len(s)), old, new)
         ELSE << Head(s) >> \o ReplaceAll(Tail(s), old, new)

\* the text as one string
RECURSIVE Str(_)
Str(s) == IF s = << >> THEN "" ELSE Head(s) \o Str(Tail(s))

\* int() of a run of ASCII digits
DigitValue(ch) ==
    CASE ch = "0" -> 0 [] ch = "1" -> 1 [] ch = "2" -> 2 [] ch = "3" -> 3
      [] ch = "4" -> 4 [] ch = "5" -> 5 [] ch = "6" -> 6 [] ch = "7" -> 7
      [] ch = "8" -> 8 [] ch = "9" -> 9

RECURSIVE ParseInt(_)
ParseInt(s) ==
    IF s = << >> THEN 0
    ELSE 10 * ParseInt(SubSeq(s, 1, Len(s) - 1)) + DigitValue(s[Len(s)])

\* last index of the maximal run of digits that starts at i (s[i] is a digit)
RECURSIVE DigitRunEnd(_, _)
DigitRunEnd(s, i) ==
    IF i + 1 <= Len(s) /\ IsDigit(s[i + 1]) THEN DigitRunEnd(s, i + 1) ELSE i

(***************************************************************************)
(* Images (PIL)                                                            *)
(***************************************************************************)
Pixels(img) == {<<x, y>> : x \in 1..img.w, y \in 1..img.h}

\* Image.crop((x1, y1, x2, y2)), the box inside the image
Crop(img, x1, y1, x2, y2) ==
    [w |-> x2 - x1, h |-> y2 - y1,
     px |-> [y \in 1..(y2 - y1) |-> [x \in 1..(x2 - x1) |-> img.px[y1 + y][x1 + x]]]]

\* ImageOps.invert
Invert(img) ==
    [img EXCEPT !.px = [y \in 1..img.h |-> [x \in 1..img.w |-> 255 - img.px[y][x]]]]

\* ImageOps.autocontrast with cutoff 0: the darkest level present goes to 0
\* and the brightest to 255, linearly; an image of one level is unchanged.
\* (PIL computes the table in floating point: int(v * 255.0 / (hi - lo) -
\* lo * 255.0 / (hi - lo)), which is this quotient or one less, and equals it
\* on either side of the thresholds 40, 170 and 175 for the levels used here.)
AutoContrast(img) ==
    IF img.w = 0 \/ img.h = 0 THEN img
    ELSE
    LET levels == {img.px[p[2]][p[1]] : p \in Pixels(img)}
        lo == CHOOSE v \in levels : \A u \in levels : v <= u
        hi == CHOOSE v \in levels : \A u \in levels : v >= u
    IN  IF hi <= lo THEN img
        ELSE [img EXCEPT !.px = [y \in 1..img.h |-> [x \in 1..img.w |->
                 Min(255, Max(0, (255 * (img.px[y][x] - lo)) \div (hi - lo)))]]]

\* Image.point(lambda p: 255 if p > t else 0)
Threshold(img, t) ==
    [img EXCEPT !.px = [y \in 1..img.h |-> [x \in 1..img.w |->
        IF img.px[y][x] > t THEN 255 ELSE 0]]]

TightenPad == 8
TightenThreshold == 40

\* _tighten_to_content
_tighten_to_content(img) ==
    LET bw == Threshold(AutoContrast(Invert(img)), TightenThreshold)
        on == {p \in Pixels(img) : bw.px[p[2]][p[1]] # 0}
    IN  IF on = {} THEN img
        ELSE
        LET bx1 == (CHOOSE p \in on : \A q \in on : p[1] <= q[1])[1] - 1
            by1 == (CHOOSE p \in on : \A q \in on : p[2] <= q[2])[2] - 1
            bx2 == (CHOOSE p \in on : \A q \in on : p[1] >= q[1])[1]
            by2 == (CHOOSE p \in on : \A q \in on : p[2] >= q[2])[2]
            x1 == Max(0, bx1 - TightenPad)
            y1 == Max(0, by1 - TightenPad)
            x2 == Min(img.w, bx2 + TightenPad)
            y2 == Min(img.h, by2 + TightenPad)
        IN  Crop(img, x1, y1, x2, y2)

\* _upscale: nearest-neighbour resize by an integer factor
_upscale(img, scale) ==
    IF img.w <= 1 \/ img.h <= 1 THEN img
    ELSE [w |-> img.w * scale, h |-> img.h * scale,
          px |-> [y \in 1..(img.h * scale) |-> [x \in 1..(img.w * scale) |->
                    img.px[((y - 1) \div scale) + 1][((x - 1) \div scale) + 1]]]]

InkThreshold == 170
MinCanvas == 10
MinInk == 18

\* _looks_like_straight_one
LooksLikeStraightOneNoThinTest(cell_img) ==
    LET g == AutoContrast(cell_img)
        ink(x, y) == g.px[y][x] < InkThreshold
        col(x) == Cardinality({y \in 1..g.h : ink(x, y)})
        peak == CHOOSE n \in {col(x) : x \in 1..g.w} :
                    \A x \in 1..g.w : n >= col(x)
        active_cols == Cardinality({x \in 1..g.w : 5 * col(x) > peak})
        active_rows == Cardinality({y \in 1..g.h : \E x \in 1..g.w : ink(x, y)})
        tall == active_rows >= g.h \div 2
        not_blob == active_cols <= (3 * g.w) \div 10
    IN  IF g.h < MinCanvas \/ g.w < MinCanvas THEN FALSE
        ELSE IF Cardinality({p \in Pixels(g) : ink(p[1], p[2])}) < MinInk THEN FALSE
        ELSE IF peak <= 0 THEN FALSE
        ELSE tall /\ not_blob

_looks_like_straight_one(cell_img) ==
    LET g == AutoContrast(cell_img)
        ink(x, y) == g.px[y][x] < InkThreshold
        col(x) == Cardinality({y \in 1..g.h : ink(x, y)})
        peak == CHOOSE n \in {col(x) : x \in 1..g.w} :
                    \A x \in 1..g.w : n >= col(x)
        \* col > 0.20 * peak
        active_cols == Cardinality({x \in 1..g.w : 5 * col(x) > peak})
        thin == active_cols <= Max(2, g.w \div 5)
        active_rows == Cardinality({y \in 1..g.h : \E x \in 1..g.w : ink(x, y)})
        tall == active_rows >= g.h \div 2
        not_blob == active_cols <= (3 * g.w) \div 10
    IN  IF g.h < MinCanvas \/ g.w < MinCanvas THEN FALSE
        ELSE IF Cardinality({p \in Pixels(g) : ink(p[1], p[2])}) < MinInk THEN FALSE
        ELSE IF peak <= 0 THEN FALSE
        ELSE thin /\ tall /\ not_blob

(***************************************************************************)
(* parse_numeric_cell                                                      *)
(***************************************************************************)
Signs == {"+", "-"}

\* lines 207-215: strip, drop spaces, repair the usual OCR confusions
NormalizeNumeric(raw) ==
    LET s0 == Strip(raw)
        s1 == RemoveChar(s0, " ")
        s2 == ReplaceChar(ReplaceChar(s1, FullwidthPlus, "+"), FullwidthMinus, "-")
        s3 == ReplaceChar(ReplaceChar(s2, "O", "0"), "o", "0")
    IN  ReplaceChar(ReplaceChar(ReplaceChar(s3, "I", "1"), "l", "1"), "|", "1")

\* a match of [+\-]?\d+(?:\.\d+)? that starts at i: its last index, 0 if none
NumericMatchAtDotOnly(s, i) ==
    LET k == IF s[i] \in Signs THEN i + 1 ELSE i
    IN  IF k > Len(s) \/ ~IsDigit(s[k]) THEN 0
        ELSE LET d == DigitRunEnd(s, k)
             IN  IF d + 2 <= Len(s) /\ s[d + 1] = "." /\ IsDigit(s[d + 2])
                 THEN DigitRunEnd(s, d + 2)
                 ELSE IF d + 1 <= Len(s) /\ s[d + 1] = "." THEN d + 1 ELSE d

NumericMatchAt(s, i) ==
    LET k == IF s[i] \in Signs THEN i + 1 ELSE i
    IN  IF k > Len(s) \/ ~IsDigit(s[k]) THEN 0
        ELSE LET d == DigitRunEnd(s, k)
             IN  IF d + 2 <= Len(s) /\ s[d + 1] = "." /\ IsDigit(s[d + 2])
                 THEN DigitRunEnd(s, d + 2)
                 ELSE d

\* re.search: the match at the leftmost position that has one
RECURSIVE NumericSearchFrom(_, _)
NumericSearchFrom(s, i) ==
    IF i > Len(s) THEN << >>
    ELSE IF NumericMatchAt(s, i) # 0 THEN SubSeq(s, i, NumericMatchAt(s, i))
    ELSE NumericSearchFrom(s, i + 1)

NumericSearch(s) == NumericSearchFrom(s, 1)

\* lines 220-222: num.split(".", 1), then left + "." + right[:1]
OneDecimalKeepsTwo(num) ==
    IF \E i \in 1..Len(num) : num[i] = "."
    THEN LET dot == CHOOSE i \in 1..Len(num) :
                       num[i] = "." /\ \A j \in 1..(i - 1) : num[j] # "."
         IN  SubSeq(num, 1, Min(Len(num), dot + 2))
    ELSE num

OneDecimal(num) ==
    IF \E i \in 1..Len(num) : num[i] = "."
    THEN LET dot == CHOOSE i \in 1..Len(num) :
                       num[i] = "." /\ \A j \in 1..(i - 1) : num[j] # "."
             left == SubSeq(num, 1, dot - 1)
             right == SubSeq(num, dot + 1, Len(num))
         IN  left \o << "." >> \o SubSeq(right, 1, Min(1, Len(right)))
    ELSE num

UpscaleForStroke == 7
PlusOne == << "+", "1" >>

\* the fallback of lines 226-230, on a cell image that was supplied

StrokeFallbackNoUpscale(cell_img) ==
    IF _looks_like_straight_one(_tighten_to_content(cell_img)) THEN PlusOne ELSE << >>

StrokeFallback(cell_img) ==
    LET ti == _tighten_to_content(cell_img)
        bi == _upscale(ti, UpscaleForStroke)
    IN  IF _looks_like_straight_one(bi) THEN PlusOne ELSE << >>

\* the returned string, and whether the stroke heuristic was called
parse_numeric_cell(raw, cell_img) ==
    LET m == NumericSearch(NormalizeNumeric(raw))
    IN  IF m # << >>
        THEN [value |-> OneDecimal(m), heuristic_called |-> FALSE]
        ELSE IF cell_img # None
        THEN [value |-> StrokeFallback(Val(cell_img)), heuristic_called |-> TRUE]
        ELSE [value |-> << >>, heuristic_called |-> FALSE]

(***************************************************************************)
(* Inputs                                                                  *)
(***************************************************************************)
Texts(alphabet, n) == UNION {[1..k -> alphabet] : k \in 0..n}

\* a canvas of level bg with the pixels x0 < x <= x1, y0 < y <= y1 at level fg
RectImage(w, h, bg, fg, x0, y0, x1, y1) ==
    [w |-> w, h |-> h,
     px |-> [y \in 1..h |-> [x \in 1..w |->
               IF x0 < x /\ x <= x1 /\ y0 < y /\ y <= y1 THEN fg ELSE bg]]]

\* (paper, ink): pen on paper, pencil on paper, pen on a gray scan
Tones == {<<255, 0>>, <<255, 128>>, <<128, 0>>}

MaxRawLen == 3
MaxCellW == 5
MaxCellH == 2

NumAlphabet == {"+", "-", ".", "1", "5", "O", "l", " ", "x", FullwidthMinus}

NumExamples ==
    { << "+", "1", ".", "2", "5" >>, << "1", "2" >>, << "O", "3" >>,
      << "-", "3", "." >>, << "x", "-", "1", ".", "5", "9", ".", "2" >>,
      << " ", "-", " ", "l", "I", "|", " " >>, << "+", "1", ".", "9", "9" >> }

\* a one-pixel stroke down the middle of a 5 x 2 cell, and an empty cell
StrokeCell == RectImage(5, 2, 255, 0, 2, 0, 3, 2)
BlankCell == RectImage(5, 2, 255, 0, 0, 0, 0, 0)
\* a four-pixel stroke at the left edge of a 30 x 3 cell
WideCell == RectImage(30, 3, 255, 0, 0, 0, 4, 3)

CellImages(w, h) ==
    { RectImage(w, h, t[1], t[2], x0, y0, x1, y1) :
        t \in Tones, x0 \in 0..w, x1 \in 0..w, y0 \in 0..h, y1 \in 0..h }

NoNumberRaws == { << >>, << "x" >>, << "+" >>, << "-", "." >> }

(***************************************************************************)
(* Idle values of the parts a specification does not exercise              *)
(***************************************************************************)
fn_vars == << call, ret >>
pipe_vars == << pc, job_dir, job_id, input_path, files, sizes, bboxes, header,
                header_assets, title_raw, hkey, idx, c, cells, part_number, date_cell,
                rows_out, row_assets, trace, result >>
engine_vars == << reader_cache, constructed, thr, used >>

FnIdle == call = [fn |-> "none"] /\ ret = None
PipeIdle ==
    /\ pc = "idle" /\ job_dir = {} /\ job_id = "" /\ input_path = None /\ files = {}
    /\ sizes = << >> /\ bboxes = << >> /\ header = << >> /\ header_assets = << >>
    /\ title_raw = "" /\ hkey = 0 /\ idx = 0 /\ c = 0 /\ cells = << >>
    /\ part_number = "" /\ date_cell = << >>
    /\ rows_out = << >> /\ row_assets = << >> /\ trace = << >> /\ result = None
EngineIdle == reader_cache = None /\ constructed = 0 /\ thr = << >> /\ used = {}

(***************************************************************************)
(* SpecNum: parse_numeric_cell on every raw text and cell image            *)
(***************************************************************************)
InitNum ==
    /\ \/ \E raw \in Texts(NumAlphabet, MaxRawLen) \cup NumExamples :
            \E img \in {None, Some(StrokeCell), Some(BlankCell)} :
                call = [fn |-> "parse_numeric_cell", raw |-> raw, cell_img |-> img]
       \/ \E raw \in NoNumberRaws \cup {<< "5" >>} :
            \E w \in 1..MaxCellW, h \in 1..MaxCellH :
                \E img \in CellImages(w, h) \cup {WideCell} :
                    call = [fn |-> "parse_numeric_cell", raw |-> raw, cell_img |-> Some(img)]
    /\ ret = None
    /\ ocr_log = << >>
    /\ PipeIdle /\ EngineIdle

ParseNumericCell ==
    /\ call.fn = "parse_numeric_cell" /\ ret = None
    /\ ret' = Some(parse_numeric_cell(call.raw, call.cell_img))
    /\ UNCHANGED << call, ocr_log, pipe_vars, engine_vars >>

NextNum == ParseNumericCell

SpecNum == InitNum /\ [][NextNum]_vars

(***************************************************************************)
(* Claims about parse_numeric_cell                                         *)
(***************************************************************************)
Returned(fn) == call.fn = fn /\ ret # None

\* the normalization as the sentence gives it
C3_NormChar(ch) ==
    CASE ch = FullwidthPlus -> "+" [] ch = FullwidthMinus -> "-"
      [] ch \in {"O", "o"} -> "0" [] ch \in {"I", "l", "|"} -> "1"
      [] OTHER -> ch

C3_Norm(raw) ==
    LET kept == SelectSeq(Strip(raw), LAMBDA ch : ch # " ")
    IN  [i \in 1..Len(kept) |-> C3_NormChar(kept[i])]

\* w is: optional sign, one or more digits, optionally '.' and one or more digits
C3_IsNumber(w) ==
    LET body == IF w # << >> /\ w[1] \in Signs THEN Tail(w) ELSE w
        dots == {i \in 1..Len(body) : body[i] = "."}
    IN  /\ body # << >>
        /\ \A i \in 1..Len(body) : IsDigit(body[i]) \/ body[i] = "."
        /\ Cardinality(dots) <= 1
        /\ \A i \in dots : 1 < i /\ i < Len(body)

C3_Matches(n) ==
    {m \in (1..Len(n)) \X (1..Len(n)) : m[1] <= m[2] /\ C3_IsNumber(SubSeq(n, m[1], m[2]))}

\* the leftmost match, taken as far as it goes
C3_Leftmost(n) ==
    LET first == CHOOSE i \in {m[1] : m \in C3_Matches(n)} :
                     \A m \in C3_Matches(n) : i <= m[1]
        last == CHOOSE j \in {m[2] : m \in C3_Matches(n)} :
                     /\ <<first, j>> \in C3_Matches(n)
                     /\ \A m \in C3_Matches(n) : m[1] = first => m[2] <= j
    IN  SubSeq(n, first, last)

\* the decimal part cut after its first digit
C3_Cut(m) ==
    IF \E i \in 1..Len(m) : m[i] = "."
    THEN SubSeq(m, 1, (CHOOSE i \in 1..Len(m) : m[i] = ".") + 1)
    ELSE m

\* C3: whenever the normalized raw text contains a number, parse_numeric_cell
\* returns the leftmost one, sign as written (none added), decimals cut to
\* the first digit without rounding; "+1.25" gives "+1.2", "12" gives "12",
\* "O3" gives "03".
C3_LeftmostNumberTruncated ==
    Returned("parse_numeric_cell") =>
        LET n == C3_Norm(call.raw)
            out == Val(ret).value
        IN  /\ C3_Matches(n) # {} =>
                /\ out = C3_Cut(C3_Leftmost(n))
                /\ (out[1] \in Signs) = (C3_Leftmost(n)[1] \in Signs)
                /\ out[1] \in Signs => out[1] = C3_Leftmost(n)[1]
            /\ call.raw = << "+", "1", ".", "2", "5" >> => out = << "+", "1", ".", "2" >>
            /\ call.raw = << "+", "1", ".", "9", "9" >> => out = << "+", "1", ".", "9" >>
            /\ call.raw = << "1", "2" >> => out = << "1", "2" >>
            /\ call.raw = << "O", "3" >> => out = << "0", "3" >>

C3_Witness ==
    /\ Returned("parse_numeric_cell")
    /\ call.raw = << "x", "-", "1", ".", "5", "9", ".", "2" >>
    /\ Val(ret).value = << "-", "1", ".", "5" >>

\* C4 as stated: the raw text "-3." comes back as "-3.", trailing dot kept.
C4_TrailingDotKept ==
    (Returned("parse_numeric_cell") /\ call.raw = << "-", "3", "." >>)
        => Val(ret).value = << "-", "3", "." >>

\* C4 as amended: the raw text "-3." comes back as "-3": the pattern needs a
\* digit after the dot, so the match stops before the dot, the decimal branch
\* is not taken and the stroke heuristic is not called.
C4_TrailingDotDropped ==
    (Returned("parse_numeric_cell") /\ call.raw = << "-", "3", "." >>)
        => /\ Val(ret).value = << "-", "3" >>
           /\ ~Val(ret).heuristic_called

C4_Witness ==
    /\ Returned("parse_numeric_cell")
    /\ call.raw = << "-", "3", "." >>
    /\ call.cell_img = Some(StrokeCell)

\* C5: when the normalized raw text contains no number, the result is "+1"
\* exactly if a cell image was given and the stroke heuristic accepts it after
\* tightening and 7x upscaling, and "" otherwise, never anything else; and the
\* heuristic is not called when a number was found.
C5_FallbackOnlyWithoutNumber ==
    Returned("parse_numeric_cell") =>
        LET found == C3_Matches(C3_Norm(call.raw)) # {}
            out == Val(ret).value
            accepted ==
                /\ call.cell_img # None
                /\ _looks_like_straight_one(
                       _upscale(_tighten_to_content(Val(call.cell_img)), 7))
        IN  /\ found => ~Val(ret).heuristic_called
            /\ ~found => /\ out \in {<< >>, << "+", "1" >>}
                         /\ (out = << "+", "1" >>) = accepted
                         /\ Val(ret).heuristic_called = (call.cell_img # None)

C5_Witness ==
    /\ Returned("parse_numeric_cell")
    /\ call.raw = << "x" >>
    /\ call.cell_img = Some(StrokeCell)
    /\ Val(ret) = [value |-> << "+", "1" >>, heuristic_called |-> TRUE]

(***************************************************************************)
(* SpecStroke: _looks_like_straight_one on canvases of at least 10 x 10    *)
(***************************************************************************)
MaxCanvasW == 25
MaxCanvasH == 11

ColumnCanvases(w, h) ==
    { RectImage(w, h, t[1], t[2], x0, 0, x0 + 2, h) : t \in Tones, x0 \in 0..(w - 2) }

SquareCanvases(w, h) ==
    UNION { { RectImage(w, h, 255, 0, x0, y0, x0 + s, y0 + s) :
                x0 \in 0..(w - s), y0 \in {0, h - s} } : s \in 1..Min(w, h) }

BlankCanvases(w, h) == { RectImage(w, h, v, v, 0, 0, 0, 0) : v \in {255, 128, 0} }

Canvases(w, h) == ColumnCanvases(w, h) \cup SquareCanvases(w, h) \cup BlankCanvases(w, h)

InitStroke ==
    /\ \E w \in MinCanvas..MaxCanvasW, h \in MinCanvas..MaxCanvasH :
         \E img \in Canvases(w, h) :
            call = [fn |-> "_looks_like_straight_one", cell_img |-> img]
    /\ ret = None
    /\ ocr_log = << >>
    /\ PipeIdle /\ EngineIdle

LooksLikeStraightOne ==
    /\ call.fn = "_looks_like_straight_one" /\ ret = None
    /\ ret' = Some(_looks_like_straight_one(call.cell_img))
    /\ UNCHANGED << call, ocr_log, pipe_vars, engine_vars >>

NextStroke == LooksLikeStraightOne

SpecStroke == InitStroke /\ [][NextStroke]_vars

\* the ink of a canvas, as the heuristic sees it (below 170 after autocontrast)
C7_Ink(img) ==
    LET g == AutoContrast(img)
    IN  {p \in Pixels(img) : g.px[p[2]][p[1]] < 170}

\* "column", "blank", "square" (with its side) or "other"
C7_Shape(img) ==
    LET ink == C7_Ink(img)
        xs == {p[1] : p \in ink}
        ys == {p[2] : p \in ink}
        lox == CHOOSE x \in xs : \A u \in xs : x <= u
        loy == CHOOSE y \in ys : \A u \in ys : y <= u
        nx == Cardinality(xs)
        ny == Cardinality(ys)
        filled == /\ xs = lox..(lox + nx - 1) /\ ys = loy..(loy + ny - 1)
                  /\ Cardinality(ink) = nx * ny
    IN  IF ink = {} THEN [kind |-> "blank", side |-> 0]
        ELSE IF filled /\ nx = 2 /\ ny = img.h THEN [kind |-> "column", side |-> 0]
        ELSE IF filled /\ nx = ny THEN [kind |-> "square", side |-> nx]
        ELSE [kind |-> "other", side |-> 0]

MaxDim == 3         \* image width and height: 1..MaxDim
BoxDen == 4         \* box coordinates are k / BoxDen, k in 0..BoxDen
MaxPad == 4         \* pad_px: 0..MaxPad, beyond the image size

\* int(f * n) for the float f nearest to k / den.  The product is computed in
\* floating point: it is floor(k * n / den), or one less when k * n / den is
\* a whole number and f lies just below k / den (0.58 * 50 is 28.999...).
\* round_down says which; 0.0 and 1.0 are exact.
IntOfProduct(k, den, n, round_down) ==
    IF round_down /\ (k * n) % den = 0 /\ 0 < k /\ k < den
    THEN (k * n) \div den - 1
    ELSE (k * n) \div den

CropNormNoClamp(img, den, box_norm, pad_px, rd) ==
    << IntOfProduct(box_norm[1], den, img.w, rd[1]) - pad_px,
       IntOfProduct(box_norm[2], den, img.h, rd[2]) - pad_px,
       IntOfProduct(box_norm[3], den, img.w, rd[3]) + pad_px,
       IntOfProduct(box_norm[4], den, img.h, rd[4]) + pad_px >>

\* crop_norm: the rectangle it crops, saves and returns
crop_norm(img, den, box_norm, pad_px, rd) ==
    LET W == img.w
        H == img.h
        l == box_norm[1]
        t == box_norm[2]
        r == box_norm[3]
        b == box_norm[4]
        x1 == Max(0, IntOfProduct(l, den, W, rd[1]) - pad_px)
        y1 == Max(0, IntOfProduct(t, den, H, rd[2]) - pad_px)
        x2 == Min(W, IntOfProduct(r, den, W, rd[3]) + pad_px)
        y2 == Min(H, IntOfProduct(b, den, H, rd[4]) + pad_px)
    IN  << x1, y1, x2, y2 >>

\* crop_from_image_norm: the rectangle of the crop it returns
crop_from_image_norm(img, den, box_norm, pad_px, rd) ==
    LET W == img.w
        H == img.h
        l == box_norm[1]
        t == box_norm[2]
        r == box_norm[3]
        b == box_norm[4]
        x1 == Max(0, IntOfProduct(l, den, W, rd[1]) - pad_px)
        y1 == Max(0, IntOfProduct(t, den, H, rd[2]) - pad_px)
        x2 == Min(W, IntOfProduct(r, den, W, rd[3]) + pad_px)
        y2 == Min(H, IntOfProduct(b, den, H, rd[4]) + pad_px)
    IN  << x1, y1, x2, y2 >>

\* the roundings that can happen for a box on an image
Roundings(img, den, box) ==
    { rd \in [1..4 -> BOOLEAN] :
        \A i \in 1..4 :
            rd[i] => LET n == IF i \in {1, 3} THEN img.w ELSE img.h
                     IN  (box[i] * n) % den = 0 /\ 0 < box[i] /\ box[i] < den }

Boxes == { bx \in [1..4 -> 0..BoxDen] : bx[1] < bx[3] /\ bx[2] < bx[4] }

InitCrop ==
    /\ \E w \in 1..MaxDim, h \in 1..MaxDim, box \in Boxes, pad \in 0..MaxPad :
         \E rd \in Roundings([w |-> w, h |-> h], BoxDen, box) :
            call = [fn |-> "crop", img |-> [w |-> w, h |-> h], box_norm |-> box,
                    pad_px |-> pad, round_down |-> rd]
    /\ ret = [crop_norm |-> None, crop_from_image_norm |-> None]
    /\ ocr_log = << >>
    /\ PipeIdle /\ EngineIdle

\* crop_norm on the image file
CropNorm ==
    /\ call.fn = "crop" /\ ret.crop_norm = None
    /\ ret' = [ret EXCEPT !.crop_norm =
                 Some(crop_norm(call.img, BoxDen, call.box_norm, call.pad_px, call.round_down))]
    /\ UNCHANGED << call, ocr_log, pipe_vars, engine_vars >>

\* crop_from_image_norm on the same image in memory
CropFromImageNorm ==
    /\ call.fn = "crop" /\ ret.crop_from_image_norm = None
    /\ ret' = [ret EXCEPT !.crop_from_image_norm =
                 Some(crop_from_image_norm(call.img, BoxDen, call.box_norm, call.pad_px,
                                           call.round_down))]
    /\ UNCHANGED << call, ocr_log, pipe_vars, engine_vars >>

NextCrop == CropNorm \/ CropFromImageNorm

SpecCrop == InitCrop /\ [][NextCrop]_vars

C1_InImage(rect, img) ==
    /\ 0 <= rect[1] /\ rect[1] <= rect[3] /\ rect[3] <= img.w
    /\ 0 <= rect[2] /\ rect[2] <= rect[4] /\ rect[4] <= img.h

\* C1: for every image of at least 1 x 1, every box with l < r and t < b in
\* [0, 1] and every padding >= 0, also larger than the image, the rectangle
\* of crop_norm and of crop_from_image_norm satisfies 0 <= x1 <= x2 <= W and
\* 0 <= y1 <= y2 <= H, and the two rectangles are the same.
C1_RectClampedAndSame ==
    call.fn = "crop" =>
        /\ ret.crop_norm # None => C1_InImage(Val(ret.crop_norm), call.img)
        /\ ret.crop_from_image_norm # None =>
               C1_InImage(Val(ret.crop_from_image_norm), call.img)
        /\ (ret.crop_norm # None /\ ret.crop_from_image_norm # None) =>
               ret.crop_norm = ret.crop_from_image_norm

\* both called, with a padding larger than the image
C1_Witness ==
    /\ call.fn = "crop"
    /\ call.pad_px > call.img.w /\ call.pad_px > call.img.h
    /\ ret.crop_norm # None /\ ret.crop_from_image_norm # None
    /\ Val(ret.crop_norm) = << 0, 0, call.img.w, call.img.h >>

(***************************************************************************)
(* ocr_easy, and the date cell                                             *)
(***************************************************************************)
RECURSIVE JoinWithSpace(_)
JoinWithSpace(parts) ==
    IF parts = << >> THEN << >>
    ELSE IF Len(parts) = 1 THEN parts[1]
    ELSE parts[1] \o << " " >> \o JoinWithSpace(Tail(parts))

\* ocr_easy, given the fragments reader.readtext returned (line 141)
ocr_easy(texts) ==
    LET kept == SelectSeq(texts, LAMBDA t : t # << >> /\ Strip(t) # << >>)
    IN  Strip(JoinWithSpace([i \in 1..Len(kept) |-> Strip(kept[i])]))

MONTH_NAMES ==
    << "January", "February", "March", "April", "May", "June", "July",
       "August", "September", "October", "November", "December" >>

\* a match of (\d{1,2})\D+(\d{1,2}) that starts at i: (month, day) digits
DateMatchAt(s, i) ==
    IF ~IsDigit(s[i]) THEN None
    ELSE
    LET two == i + 1 <= Len(s) /\ IsDigit(s[i + 1])
        g1 == IF two THEN SubSeq(s, i, i + 1) ELSE SubSeq(s, i, i)
        k == IF two THEN i + 2 ELSE i + 1
    IN  IF k > Len(s) \/ IsDigit(s[k]) THEN None
        ELSE
        LET e == CHOOSE j \in k..Len(s) :
                    /\ \A m \in k..j : ~IsDigit(s[m])
                    /\ (j = Len(s) \/ IsDigit(s[j + 1]))
        IN  IF e = Len(s) THEN None
            ELSE Some(<< g1, SubSeq(s, e + 1, Min(DigitRunEnd(s, e + 1), e + 2)) >>)

RECURSIVE DateSearchFrom(_, _)
DateSearchFrom(s, i) ==
    IF i > Len(s) THEN None
    ELSE IF DateMatchAt(s, i) # None THEN DateMatchAt(s, i)
    ELSE DateSearchFrom(s, i + 1)

\* re.split(r"\s+", cand): the pieces between runs of whitespace
RECURSIVE SplitWhitespace(_, _)
SplitWhitespace(s, cur) ==
    IF s = << >> THEN << cur >>
    ELSE IF Head(s) \in Whitespace
         THEN << cur >> \o SplitWhitespace(LStrip(s), << >>)
         ELSE SplitWhitespace(Tail(s), Append(cur, Head(s)))

\* str.isdigit
IsDigitToken(t) == t # << >> /\ \A i \in 1..Len(t) : IsDigit(t[i])

\* _parse_month_day_from_any_separators: None, or Some((month, day))
_parse_month_day_from_any_separators(text) ==
    LET cand0 == Strip(text)
        cand1 == ReplaceChar(ReplaceChar(cand0, "I", "1"), "l", "1")
        cand == ReplaceChar(ReplaceChar(cand1, "\\", "/"), "|", "/")
        m == DateSearchFrom(cand, 1)
        parts == SelectSeq(SplitWhitespace(cand, << >>), IsDigitToken)
        digits == SelectSeq(cand, IsDigit)
    IN  IF cand0 = << >> THEN None
        ELSE IF m # None THEN Some(<< ParseInt(Val(m)[1]), ParseInt(Val(m)[2]) >>)
        ELSE IF Len(parts) >= 2 THEN Some(<< ParseInt(parts[1]), ParseInt(parts[2]) >>)
        ELSE IF Len(digits) \in {2, 3, 4}
        THEN Some(<< ParseInt(SubSeq(digits, 1, 1)),
                     IF Len(digits) >= 3 THEN ParseInt(Tail(digits))
                     ELSE ParseInt(SubSeq(digits, 2, 2)) >>)
        ELSE None

\* line 286
ValidMonthDayFromZero(month, day) == 0 <= month /\ month <= 12 /\ 0 <= day /\ day <= 31

ValidMonthDay(month, day) == 1 <= month /\ month <= 12 /\ 1 <= day /\ day <= 31

\* ocr_date_cell after the OCR call returned raw: (inspection_date, date_raw)
ocr_date_cell(raw) ==
    LET md == _parse_month_day_from_any_separators(raw)
    IN  IF md = None THEN << "", Str(raw) >>
        ELSE IF ~ValidMonthDay(Val(md)[1], Val(md)[2]) THEN << "", Str(raw) >>
        ELSE << MONTH_NAMES[Val(md)[1]] \o " " \o ToString(Val(md)[2]), Str(raw) >>

(***************************************************************************)
(* SpecDate: ocr_date_cell on every text the engine may return             *)
(***************************************************************************)
MaxDateLen == 4
DateAlphabet == {"1", "3", "0", "/", " ", "l"}
DateExamples ==
    { << "3", "/", "1", "4" >>, << "1", "3", "/", "4", "0" >>,
      << "1", "2", "\\", "3", "1" >>, << "1", "2", "3", "1", "0" >>,
      << "x", "3", "|", "|", "I", "4", "/", "9" >> }

InitDate ==
    /\ call \in [fn : {"ocr_date_cell"}, date_img : {StrokeCell, BlankCell}]
    /\ ret = None
    /\ ocr_log = << >>
    /\ PipeIdle /\ EngineIdle

\* ocr_date_cell: lines 276-279 feed the engine, whose answer is any text
OcrDateCell ==
    /\ call.fn = "ocr_date_cell" /\ ret = None
    /\ \E texts \in {<< t >> : t \in Texts(DateAlphabet, MaxDateLen) \cup DateExamples}
                    \cup {<< >>}
                    \cup (Texts(DateAlphabet, 1) \X Texts(DateAlphabet, 1)) :
         LET raw == ocr_easy(texts)
         IN  /\ ocr_log' = Append(ocr_log, [site |-> "date", raw |-> raw])
             /\ ret' = Some(ocr_date_cell(raw))
    /\ UNCHANGED << call, pipe_vars, engine_vars >>

NextDate == OcrDateCell

SpecDate == InitDate /\ [][NextDate]_vars

\* the normalization as the sentence gives it: I/l to 1, backslash/pipe to '/'
C6_Norm(raw) ==
    [i \in 1..Len(Strip(raw)) |->
        LET ch == Strip(raw)[i]
        IN  IF ch \in {"I", "l"} THEN "1" ELSE IF ch \in {"\\", "|"} THEN "/" ELSE ch]

\* the value of a text of digits
C6_Value(t) ==
    LET pow[k \in 0..Len(t)] == IF k = 0 THEN 1 ELSE 10 * pow[k - 1]
        sum[k \in 0..Len(t)] ==
            IF k = 0 THEN 0 ELSE sum[k - 1] + DigitValue(t[k]) * pow[Len(t) - k]
    IN  sum[Len(t)]

\* (a) the first stretch of non-digits that has a digit on both sides; month
\* is the one or two digits before it, day the one or two digits after it
C6_Separators(n) ==
    { pq \in (1..Len(n)) \X (1..Len(n)) :
        /\ 1 < pq[1] /\ pq[1] <= pq[2] /\ pq[2] < Len(n)
        /\ \A i \in pq[1]..pq[2] : ~IsDigit(n[i])
        /\ IsDigit(n[pq[1] - 1]) /\ IsDigit(n[pq[2] + 1]) }

C6_StrategyA(n) ==
    IF C6_Separators(n) = {} THEN None
    ELSE LET pq == CHOOSE a \in C6_Separators(n) : \A b \in C6_Separators(n) : a[1] <= b[1]
             p == pq[1]
             q == pq[2]
             from == IF p - 2 >= 1 /\ IsDigit(n[p - 2]) THEN p - 2 ELSE p - 1
             to == IF q + 2 <= Len(n) /\ IsDigit(n[q + 2]) THEN q + 2 ELSE q + 1
         IN  Some(<< C6_Value(SubSeq(n, from, p - 1)), C6_Value(SubSeq(n, q + 1, to)) >>)

\* (b) the whitespace-separated tokens that are all digits, in order
C6_Tokens(n) ==
    LET starts == { i \in 1..Len(n) :
                      n[i] \notin Whitespace /\ (i = 1 \/ n[i - 1] \in Whitespace) }
        end(i) == CHOOSE j \in i..Len(n) :
                      /\ \A k \in i..j : n[k] \notin Whitespace
                      /\ (j = Len(n) \/ n[j + 1] \in Whitespace)
        numeric == { i \in starts : \A k \in i..end(i) : IsDigit(n[k]) }
        rank(i) == Cardinality({ j \in numeric : j <= i })
    IN  [r \in 1..Cardinality(numeric) |->
            LET i == CHOOSE j \in numeric : rank(j) = r IN SubSeq(n, i, end(i))]

C6_StrategyB(n) ==
    IF Len(C6_Tokens(n)) >= 2
    THEN Some(<< C6_Value(C6_Tokens(n)[1]), C6_Value(C6_Tokens(n)[2]) >>)
    ELSE None

\* (c) 2, 3 or 4 digits in all: the first is the month, the rest the day
C6_StrategyC(n) ==
    LET at == { i \in 1..Len(n) : IsDigit(n[i]) }
        nth(r) == CHOOSE i \in at : Cardinality({ j \in at : j <= i }) = r
        digits == [r \in 1..Cardinality(at) |-> n[nth(r)]]
    IN  IF Cardinality(at) \in {2, 3, 4}
        THEN Some(<< C6_Value(<< digits[1] >>), C6_Value(Tail(digits)) >>)
        ELSE None

C6_FirstStrategy(n) ==
    IF n = << >> THEN None
    ELSE IF C6_StrategyA(n) # None THEN C6_StrategyA(n)
    ELSE IF C6_StrategyB(n) # None THEN C6_StrategyB(n)
    ELSE C6_StrategyC(n)

C6_MonthName(m) ==
    CASE m = 1 -> "January" [] m = 2 -> "February" [] m = 3 -> "March"
      [] m = 4 -> "April" [] m = 5 -> "May" [] m = 6 -> "June" [] m = 7 -> "July"
      [] m = 8 -> "August" [] m = 9 -> "September" [] m = 10 -> "October"
      [] m = 11 -> "November" [] m = 12 -> "December"

\* C6: the second component is the raw OCR text unchanged, also when parsing
\* fails; the first is "<MonthName> <day>" exactly when the first strategy
\* that yields a pair, in the order (a), (b), (c), gives 1 <= month <= 12 and
\* 1 <= day <= 31, and "" otherwise.  "3/14" gives ("March 14", "3/14"),
\* "13/40" gives ("", "13/40"), "" gives ("", "").
C6_DateFromFirstStrategy ==
    Returned("ocr_date_cell") =>
        LET raw == ocr_log[Len(ocr_log)].raw
            md == C6_FirstStrategy(C6_Norm(raw))
            ok == /\ md # None
                  /\ 1 <= Val(md)[1] /\ Val(md)[1] <= 12
                  /\ 1 <= Val(md)[2] /\ Val(md)[2] <= 31
        IN  /\ Val(ret)[2] = Str(raw)
            /\ ok => Val(ret)[1] = C6_MonthName(Val(md)[1]) \o " " \o ToString(Val(md)[2])
            /\ ~ok => Val(ret)[1] = ""
            /\ raw = << "3", "/", "1", "4" >> => Val(ret) = << "March 14", "3/14" >>
            /\ raw = << "1", "3", "/", "4", "0" >> => Val(ret) = << "", "13/40" >>
            /\ raw = << >> => Val(ret) = << "", "" >>

\* strategy (c) decided: "310" is March 10
C6_Witness ==
    /\ Returned("ocr_date_cell")
    /\ ocr_log[Len(ocr_log)].raw = << "3", "1", "0" >>
    /\ Val(ret) = << "March 10", "310" >>

(***************************************************************************)
(* extract_inner_curvature: layout                                         *)
(* Box coordinates are written in thousandths (0.135 is 135).              *)
(***************************************************************************)
LayoutDen == 1000

HeaderKeys == << "construction_number", "orderer", "construction_name", "project_title" >>
HEADER_BOXES ==
    [construction_number |-> << 135, 112, 395, 145 >>,
     orderer             |-> << 135, 158, 395, 185 >>,
     construction_name   |-> << 135, 200, 395, 230 >>,
     project_title       |-> << 405, 180, 790, 230 >>]

DIAGRAM_BOX == << 60, 260, 940, 620 >>
TABLE_BOX == << 60, 670, 940, 950 >>
TABLE_TITLE_BOX == << 85, 120, 810, 200 >>
PART_X == << 0, 86 >>
GRID_X == << 86, 810 >>
DATE_X == << 810, 910 >>
CONFIRM_X == << 910, 1000 >>
ROW_BOXES == << << 0, 440, 1000, 590 >>, << 0, 590, 1000, 750 >>, << 0, 750, 1000, 900 >> >>

GridCells == 12

\* on the page sizes below no product box * size is a whole number strictly
\* inside the image, so int() of the floating-point product is the exact floor
Exact == [i \in 1..4 |-> FALSE]

Size(w, h) == [w |-> w, h |-> h]
RectSize(rect) == Size(rect[3] - rect[1], rect[4] - rect[2])

\* _render_pdf_page0_to_png: a US Letter page (612 x 792 points) at zoom 2
PdfZoom == 2
PdfPage == Size(612 * PdfZoom, 792 * PdfZoom)
\* an uploaded image keeps its size: an A4 scan at 150 dpi
ScanPage == Size(1240, 1754)

(***************************************************************************)
(* The job directory                                                       *)
(***************************************************************************)
InputPrefix == << "i", "n", "p", "u", "t" >>
MetaTxt == [name |-> << "m", "e", "t", "a", ".", "t", "x", "t" >>, is_file |-> TRUE]
InputPdf == [name |-> InputPrefix \o << ".", "p", "d", "f" >>, is_file |-> TRUE]
InputPng == [name |-> InputPrefix \o << ".", "p", "n", "g" >>, is_file |-> TRUE]
InputsDir == [name |-> InputPrefix \o << "s" >>, is_file |-> FALSE]

\* what create_job leaves behind (main.py lines 47-59): an upload, or nothing
\* after an empty upload; and a directory it never made
Jobs ==
    { [id |-> "job-pdf", dir |-> {MetaTxt, InputPdf}],
      [id |-> "job-png", dir |-> {MetaTxt, InputPng}],
      [id |-> "job-empty", dir |-> {}],
      [id |-> "job-dir", dir |-> {MetaTxt, InputsDir}] }

StartsWith(s, prefix) == Len(s) >= Len(prefix) /\ SubSeq(s, 1, Len(prefix)) = prefix

\* any entry named input*, file or not
FindInputAnyEntry(dir) == { p \in dir : StartsWith(p.name, InputPrefix) }

\* _find_input_file: the entries it can return (iterdir has no fixed order)
_find_input_file(dir) == { p \in dir : StartsWith(p.name, InputPrefix) /\ p.is_file }

\* Path.suffix
Suffix(name) ==
    LET dots == { i \in 2..Len(name) : name[i] = "." }
    IN  IF dots = {} THEN << >>
        ELSE SubSeq(name, CHOOSE i \in dots : \A j \in dots : j <= i, Len(name))

\* str.lower on the letters that occur
Lower(s) ==
    [i \in 1..Len(s) |->
        CASE s[i] = "P" -> "p" [] s[i] = "D" -> "d" [] s[i] = "F" -> "f" [] OTHER -> s[i]]

AssetUrl(job, name) == "/v1/jobs/" \o job \o "/asset/" \o name

clean_part_number(s) ==
    LET s1 == Strip(RemoveChar(s, " "))
        s2 == ReplaceAll(ReplaceAll(s1, << "D", "B", "1", "l" >>, << "D", "B", "1", "1" >>),
                         << "D", "B", "l", "l" >>, << "D", "B", "1", "1" >>)
    IN  ReplaceChar(ReplaceChar(s2, EmDash, "-"), EnDash, "-")

(***************************************************************************)
(* What the OCR engine and the page can show                               *)
(***************************************************************************)
\* what a read of the engine returns (the fragments of readtext), and the
\* cell image where one is parsed
Seen(texts, img) == [texts |-> texts, img |-> img]

PrintedTexts == { << << "K", "-", "1" >>, << " " >>, << "R", "2", " " >> >> }
PartTexts == { << << "D", "B", "1", "l", EmDash, "3", " ", "A" >> >> }
DateTexts == { << << "3", "/", "1", "4" >> >>, << << "1", "3", "/", "4" >> >> }
ConfirmerTexts == { << << "T", " ", "K" >> >> }
CellFinds ==
    << Seen(<< >>, Some(StrokeCell)),
       Seen(<< << "+", "1", ".", "5", "9" >> >>, Some(BlankCell)),
       Seen(<< << "O", ".", "3" >> >>, Some(StrokeCell)),
       Seen(<< << "x" >> >>, Some(StrokeCell)),
       Seen(<< << "x" >> >>, Some(BlankCell)) >>

\* the places of the sheet that are read: (kind, row or header index, sub-cell)
Sites ==
    ({"header"} \X (1..Len(HeaderKeys)) \X {0}) \cup {<< "title", 0, 0 >>}
    \cup ({"part", "date", "confirmer"} \X (1..Len(ROW_BOXES)) \X {0})
    \cup ({"cell"} \X (1..Len(ROW_BOXES)) \X (0..(GridCells - 1)))

\* nothing written there: the engine returns no fragment
Nothing(s) == Seen(<< >>, IF s[1] = "cell" THEN Some(BlankCell) ELSE None)

Finds(s) ==
    CASE s[1] \in {"header", "title"} -> { Seen(t, None) : t \in PrintedTexts }
      [] s[1] = "part" -> { Seen(t, None) : t \in PartTexts }
      [] s[1] = "date" -> { Seen(t, None) : t \in DateTexts }
      [] s[1] = "confirmer" -> { Seen(t, None) : t \in ConfirmerTexts }
      [] s[1] = "cell" -> { CellFinds[k] : k \in DOMAIN CellFinds }

BlankSheet == [s \in Sites |-> Nothing(s)]

\* every field filled in; neighbouring cells differ, row by row
FilledSheet(shift) ==
    [s \in Sites |->
        IF s[1] = "cell"
        THEN LET k == (s[2] + s[3] + shift) % (Len(CellFinds) + 1)
             IN  IF k = 0 THEN Nothing(s) ELSE CellFinds[k]
        ELSE CHOOSE f \in Finds(s) : TRUE]

\* the sheets a run is given: blank, one thing written anywhere, all filled in
Sheets(blank) ==
    {blank} \cup UNION { { [blank EXCEPT ![s] = f] : f \in Finds(s) } : s \in Sites }
            \cup { FilledSheet(shift) : shift \in 0..Len(CellFinds) }

\* one engine read, as logged
Read(site, row, cell, texts, img) ==
    [site |-> site, row |-> row, cell |-> cell, texts |-> texts, img |-> img]

Step(name, key, row, cell) == [step |-> name, key |-> key, row |-> row, cell |-> cell]
NoSize == Size(0, 0)

(***************************************************************************)
(* Spec: one call of extract_inner_curvature(job_dir, job_id)              *)
(***************************************************************************)
Init ==
    /\ \E j \in Jobs : job_id = j.id /\ job_dir = j.dir
    /\ \E sheet \in Sheets(BlankSheet) :
         call = [fn |-> "extract_inner_curvature", sheet |-> sheet]
    /\ ret = None
    /\ ocr_log = << >>
    /\ pc = "locate_input"
    /\ input_path = None
    /\ files = {}
    /\ sizes = [page |-> NoSize, table |-> NoSize, title |-> NoSize, row |-> NoSize,
                part |-> NoSize, grid |-> NoSize, date |-> NoSize, conf |-> NoSize,
                cell |-> NoSize]
    /\ bboxes = [diagram |-> None, table |-> None, headers |-> << >>]
    /\ header = << >> /\ header_assets = << >> /\ title_raw = ""
    /\ hkey = 0 /\ idx = 0 /\ c = 0 /\ cells = << >>
    /\ part_number = "" /\ date_cell = << >>
    /\ rows_out = << >> /\ row_assets = << >>
    /\ trace = << >>
    /\ result = None
    /\ EngineIdle

\* line 330: FileNotFoundError leaves the function before anything is written
LocateInput ==
    /\ pc = "locate_input"
    /\ trace' = Append(trace, Step("LOCATE_INPUT", "", 0, 0))
    /\ IF _find_input_file(job_dir) = {}
       THEN pc' = "failed" /\ UNCHANGED input_path
       ELSE /\ \E p \in _find_input_file(job_dir) : input_path' = Some(p)
            /\ pc' = "rasterize_page"
    /\ UNCHANGED << call, ret, ocr_log, job_dir, job_id, files, sizes, bboxes, header,
                    header_assets, title_raw, hkey, idx, c, cells, part_number, date_cell,
                    rows_out, row_assets, result, engine_vars >>

\* lines 338-341
RasterizePage ==
    /\ pc = "rasterize_page"
    /\ sizes' = [sizes EXCEPT !.page =
                    IF Lower(Suffix(Val(input_path).name)) = << ".", "p", "d", "f" >>
                    THEN PdfPage ELSE ScanPage]
    /\ files' = files \cup {"page0.png"}
    /\ trace' = Append(trace, Step("RASTERIZE_PAGE", "", 0, 0))
    /\ pc' = "crop_diagram"
    /\ UNCHANGED << call, ret, ocr_log, job_dir, job_id, input_path, bboxes, header,
                    header_assets, title_raw, hkey, idx, c, cells, part_number, date_cell,
                    rows_out, row_assets, result, engine_vars >>

\* line 343
CropDiagram ==
    /\ pc = "crop_diagram"
    /\ bboxes' = [bboxes EXCEPT !.diagram =
                    Some(crop_norm(sizes.page, LayoutDen, DIAGRAM_BOX, 20, Exact))]
    /\ files' = files \cup {"diagram.png"}
    /\ trace' = Append(trace, Step("CROP_DIAGRAM", "", 0, 0))
    /\ pc' = "crop_table"
    /\ UNCHANGED << call, ret, ocr_log, job_dir, job_id, input_path, sizes, header,
                    header_assets, title_raw, hkey, idx, c, cells, part_number, date_cell,
                    rows_out, row_assets, result, engine_vars >>

\* line 344; the header loop starts at the first key
CropTable ==
    /\ pc = "crop_table"
    /\ bboxes' = [bboxes EXCEPT !.table =
                    Some(crop_norm(sizes.page, LayoutDen, TABLE_BOX, 10, Exact))]
    /\ files' = files \cup {"table.png"}
    /\ trace' = Append(trace, Step("CROP_TABLE", "", 0, 0))
    /\ hkey' = 1
    /\ pc' = "crop_header"
    /\ UNCHANGED << call, ret, ocr_log, job_dir, job_id, input_path, sizes, header,
                    header_assets, title_raw, idx, c, cells, part_number, date_cell,
                    rows_out, row_assets, result, engine_vars >>

\* lines 351-354
CropHeader ==
    /\ pc = "crop_header"
    /\ LET key == HeaderKeys[hkey]
           bbox == crop_norm(sizes.page, LayoutDen, HEADER_BOXES[key], 10, Exact)
       IN  /\ files' = files \cup {"header_" \o key \o ".png"}
           /\ bboxes' = [bboxes EXCEPT !.headers =
                            Append(@, bbox \o << "green", "H_" \o key >>)]
           /\ header_assets' =
                (key :> AssetUrl(job_id, "header_" \o key \o ".png")) @@ header_assets
           /\ trace' = Append(trace, Step("CROP_HEADER", key, 0, 0))
    /\ pc' = "ocr_header"
    /\ UNCHANGED << call, ret, ocr_log, job_dir, job_id, input_path, sizes, header,
                    title_raw, hkey, idx, c, cells, part_number, date_cell,
                    rows_out, row_assets, result, engine_vars >>

\* line 355, and the loop's next turn
OcrHeader ==
    /\ pc = "ocr_header"
    /\ LET texts == call.sheet[<< "header", hkey, 0 >>].texts
       IN  /\ ocr_log' = Append(ocr_log, Read("header", hkey, 0, texts, None))
           /\ header' = (HeaderKeys[hkey] :> Str(ocr_easy(texts))) @@ header
    /\ trace' = Append(trace, Step("OCR_HEADER", HeaderKeys[hkey], 0, 0))
    /\ IF hkey < Len(HeaderKeys)
       THEN hkey' = hkey + 1 /\ pc' = "crop_header"
       ELSE hkey' = hkey /\ pc' = "save_table_debug"
    /\ UNCHANGED << call, ret, job_dir, job_id, input_path, files, sizes, bboxes,
                    header_assets, title_raw, idx, c, cells, part_number, date_cell,
                    rows_out, row_assets, result, engine_vars >>

\* lines 357-358: table.png is opened again and the grid overlay is saved
SaveTableDebug ==
    /\ pc = "save_table_debug"
    /\ sizes' = [sizes EXCEPT !.table = RectSize(Val(bboxes.table))]
    /\ files' = files \cup {"table_debug_grid.png"}
    /\ trace' = Append(trace, Step("RENDER_TABLE_DEBUG", "", 0, 0))
    /\ pc' = "crop_title"
    /\ UNCHANGED << call, ret, ocr_log, job_dir, job_id, input_path, bboxes, header,
                    header_assets, title_raw, hkey, idx, c, cells, part_number, date_cell,
                    rows_out, row_assets, result, engine_vars >>

\* line 360
CropTitle ==
    /\ pc = "crop_title"
    /\ sizes' = [sizes EXCEPT !.title =
                    RectSize(crop_from_image_norm(sizes.table, LayoutDen, TABLE_TITLE_BOX,
                                                  4, Exact))]
    /\ trace' = Append(trace, Step("CROP_TABLE_TITLE", "", 0, 0))
    /\ pc' = "ocr_title"
    /\ UNCHANGED << call, ret, ocr_log, job_dir, job_id, input_path, files, bboxes, header,
                    header_assets, title_raw, hkey, idx, c, cells, part_number, date_cell,
                    rows_out, row_assets, result, engine_vars >>

\* lines 361-365; the row loop starts at row 1 (lines 367-370)
OcrTitle ==
    /\ pc = "ocr_title"
    /\ LET texts == call.sheet[<< "title", 0, 0 >>].texts
       IN  /\ ocr_log' = Append(ocr_log, Read("title", 0, 0, texts, None))
           /\ title_raw' = Str(ocr_easy(texts))
    /\ trace' = Append(trace, Step("OCR_TITLE", "", 0, 0))
    /\ idx' = 1
    /\ pc' = "crop_row"
    /\ UNCHANGED << call, ret, job_dir, job_id, input_path, files, sizes, bboxes, header,
                    header_assets, hkey, c, cells, part_number, date_cell,
                    rows_out, row_assets, result, engine_vars >>

\* line 371
CropRow ==
    /\ pc = "crop_row"
    /\ sizes' = [sizes EXCEPT !.row =
                    RectSize(crop_from_image_norm(sizes.table, LayoutDen, ROW_BOXES[idx],
                                                  0, Exact))]
    /\ trace' = Append(trace, Step("CROP_ROW", "", idx, 0))
    /\ pc' = "crop_fields"
    /\ UNCHANGED << call, ret, ocr_log, job_dir, job_id, input_path, files, bboxes, header,
                    header_assets, title_raw, hkey, idx, c, cells, part_number, date_cell,
                    rows_out, row_assets, result, engine_vars >>

\* the crop of a row between two x positions, over its full height
FieldSize(row, xs) ==
    RectSize(crop_from_image_norm(row, LayoutDen, << xs[1], 0, xs[2], LayoutDen >>, 2, Exact))

\* lines 373-376
CropFields ==
    /\ pc = "crop_fields"
    /\ sizes' = [sizes EXCEPT !.part = FieldSize(sizes.row, PART_X),
                              !.grid = FieldSize(sizes.row, GRID_X),
                              !.date = FieldSize(sizes.row, DATE_X),
                              !.conf = FieldSize(sizes.row, CONFIRM_X)]
    /\ trace' = Append(trace, Step("CROP_FIELDS", "", idx, 0))
    /\ pc' = "save_crops"
    /\ UNCHANGED << call, ret, ocr_log, job_dir, job_id, input_path, files, bboxes, header,
                    header_assets, title_raw, hkey, idx, c, cells, part_number, date_cell,
                    rows_out, row_assets, result, engine_vars >>

RowName(kind, i) == kind \o "_row" \o ToString(i) \o ".png"

\* lines 379-390, with the grid crop written as well
SaveCropsAndGrid ==
    /\ pc = "save_crops"
    /\ files' = files \cup {RowName("part", idx), RowName("date", idx),
                            RowName("confirmer", idx), RowName("grid", idx)}
    /\ row_assets' =
         (("row" \o ToString(idx)) :>
            [part |-> AssetUrl(job_id, RowName("part", idx)),
             date |-> AssetUrl(job_id, RowName("date", idx)),
             confirmer |-> AssetUrl(job_id, RowName("confirmer", idx))]) @@ row_assets
    /\ trace' = Append(trace, Step("SAVE_CROPS", "", idx, 0))
    /\ pc' = "ocr_part"
    /\ UNCHANGED << call, ret, ocr_log, job_dir, job_id, input_path, sizes, bboxes, header,
                    header_assets, title_raw, hkey, idx, c, cells, part_number, date_cell,
                    rows_out, result, engine_vars >>

\* lines 379-390: the grid crop is not written
SaveCrops ==
    /\ pc = "save_crops"
    /\ files' = files \cup {RowName("part", idx), RowName("date", idx),
                            RowName("confirmer", idx)}
    /\ row_assets' =
         (("row" \o ToString(idx)) :>
            [part |-> AssetUrl(job_id, RowName("part", idx)),
             date |-> AssetUrl(job_id, RowName("date", idx)),
             confirmer |-> AssetUrl(job_id, RowName("confirmer", idx))]) @@ row_assets
    /\ trace' = Append(trace, Step("SAVE_CROPS", "", idx, 0))
    /\ pc' = "ocr_part"
    /\ UNCHANGED << call, ret, ocr_log, job_dir, job_id, input_path, sizes, bboxes, header,
                    header_assets, title_raw, hkey, idx, c, cells, part_number, date_cell,
                    rows_out, result, engine_vars >>

\* lines 392-394
OcrPart ==
    /\ pc = "ocr_part"
    /\ LET texts == call.sheet[<< "part", idx, 0 >>].texts
       IN  /\ ocr_log' = Append(ocr_log, Read("part", idx, 0, texts, None))
           /\ part_number' = Str(clean_part_number(ocr_easy(texts)))
    /\ trace' = Append(trace, Step("OCR_PART", "", idx, 0))
    /\ pc' = "split_grid"
    /\ UNCHANGED << call, ret, job_dir, job_id, input_path, files, sizes, bboxes, header,
                    header_assets, title_raw, hkey, idx, c, cells, date_cell,
                    rows_out, row_assets, result, engine_vars >>

\* lines 397-399
SplitGrid ==
    /\ pc = "split_grid"
    /\ cells' = << >>
    /\ c' = 0
    /\ trace' = Append(trace, Step("SPLIT_GRID", "", idx, 0))
    /\ pc' = "ocr_parse_cell"
    /\ UNCHANGED << call, ret, ocr_log, job_dir, job_id, input_path, files, sizes, bboxes,
                    header, header_assets, title_raw, hkey, idx, part_number, date_cell,
                    rows_out, row_assets, result, engine_vars >>

\* int((k / 12) * gw), line 400
CellEdge(k, gw) == IntOfProduct(k, GridCells, gw, FALSE)

\* lines 405: a cell that parses to nothing is left out
AppendCellUnlessEmpty(cs, value) == IF value = "" THEN cs ELSE Append(cs, value)

\* line 405
AppendCell(cs, value) == Append(cs, value)

\* lines 400-405: one turn of the cell loop.  What the crop shows is the
\* sheet's drawing of the cell (StrokeCell, BlankCell); its size is the crop's.
OcrParseCell ==
    /\ pc = "ocr_parse_cell"
    /\ sizes' = [sizes EXCEPT !.cell =
                    Size(CellEdge(c + 1, sizes.grid.w) - CellEdge(c, sizes.grid.w),
                         sizes.grid.h)]
    /\ LET texts == call.sheet[<< "cell", idx, c >>].texts
           cell_img == call.sheet[<< "cell", idx, c >>].img
       IN  /\ ocr_log' = Append(ocr_log, Read("cell", idx, c, texts, cell_img))
           /\ cells' = AppendCell(cells,
                          Str(parse_numeric_cell(ocr_easy(texts), cell_img).value))
    /\ trace' = Append(trace, Step("OCR_PARSE_CELL", "", idx, c))
    /\ IF c + 1 < GridCells
       THEN c' = c + 1 /\ pc' = "ocr_parse_cell"
       ELSE c' = c /\ pc' = "ocr_date"
    /\ UNCHANGED << call, ret, job_dir, job_id, input_path, files, bboxes, header,
                    header_assets, title_raw, hkey, idx, part_number, date_cell,
                    rows_out, row_assets, result, engine_vars >>

\* line 411
OcrDate ==
    /\ pc = "ocr_date"
    /\ LET texts == call.sheet[<< "date", idx, 0 >>].texts
       IN  /\ ocr_log' = Append(ocr_log, Read("date", idx, 0, texts, None))
           /\ date_cell' = ocr_date_cell(ocr_easy(texts))
    /\ trace' = Append(trace, Step("OCR_DATE", "", idx, 0))
    /\ pc' = "ocr_confirmer"
    /\ UNCHANGED << call, ret, job_dir, job_id, input_path, files, sizes, bboxes, header,
                    header_assets, title_raw, hkey, idx, c, cells, part_number,
                    rows_out, row_assets, result, engine_vars >>

\* cells[a:b] of Python, a and b counted from 0
Slice(s, a, b) == SubSeq(s, a + 1, Min(b, Len(s)))

\* lines 407-424, and the loop's next turn
OcrConfirmer ==
    /\ pc = "ocr_confirmer"
    /\ LET texts == call.sheet[<< "confirmer", idx, 0 >>].texts
       IN  /\ ocr_log' = Append(ocr_log, Read("confirmer", idx, 0, texts, None))
           /\ rows_out' = Append(rows_out,
                  [part_number |-> part_number,
                   lu |-> Slice(cells, 0, 4),
                   lc |-> Slice(cells, 4, 8),
                   lb |-> Slice(cells, 8, 12),
                   inspection_date |-> date_cell[1],
                   _date_raw |-> date_cell[2],
                   confirmer |-> Str(Strip(RemoveChar(ocr_easy(texts), " ")))])
    /\ trace' = Append(trace, Step("OCR_CONFIRMER", "", idx, 0))
    /\ IF idx < Len(ROW_BOXES)
       THEN idx' = idx + 1 /\ pc' = "crop_row"
       ELSE idx' = idx /\ pc' = "save_debug_bbox"
    /\ UNCHANGED << call, ret, job_dir, job_id, input_path, files, sizes, bboxes, header,
                    header_assets, title_raw, hkey, c, cells, part_number, date_cell,
                    row_assets, result, engine_vars >>

\* lines 426-434
SaveDebugBbox ==
    /\ pc = "save_debug_bbox"
    /\ files' = files \cup {"debug_bbox.png"}
    /\ trace' = Append(trace, Step("RENDER_DEBUG_BBOX", "", 0, 0))
    /\ pc' = "return"
    /\ UNCHANGED << call, ret, ocr_log, job_dir, job_id, input_path, sizes, bboxes, header,
                    header_assets, title_raw, hkey, idx, c, cells, part_number, date_cell,
                    rows_out, row_assets, result, engine_vars >>

\* lines 436-450
Return ==
    /\ pc = "return"
    /\ result' = Some(
         [template |-> "inner_curvature_v1",
          header |-> header,
          table |-> [title_raw |-> title_raw],
          assets |-> [page0_image |-> AssetUrl(job_id, "page0.png"),
                      diagram_image |-> AssetUrl(job_id, "diagram.png"),
                      table_image |-> AssetUrl(job_id, "table.png"),
                      debug_bbox |-> AssetUrl(job_id, "debug_bbox.png"),
                      table_debug_grid |-> AssetUrl(job_id, "table_debug_grid.png"),
                      header_crops |-> header_assets,
                      row_crops |-> row_assets],
          rows |-> rows_out])
    /\ trace' = Append(trace, Step("ASSEMBLE_RESULT", "", 0, 0))
    /\ pc' = "done"
    /\ UNCHANGED << call, ret, ocr_log, job_dir, job_id, input_path, files, sizes, bboxes,
                    header, header_assets, title_raw, hkey, idx, c, cells, part_number,
                    date_cell, rows_out, row_assets, engine_vars >>

\* the call has ended, by raising (line 53) or by returning (line 436)
Ended ==
    /\ pc \in {"failed", "done"}
    /\ UNCHANGED vars

Next ==
    \/ LocateInput \/ RasterizePage \/ CropDiagram \/ CropTable
    \/ CropHeader \/ OcrHeader \/ SaveTableDebug \/ CropTitle \/ OcrTitle
    \/ CropRow \/ CropFields \/ SaveCrops \/ OcrPart \/ SplitGrid \/ OcrParseCell
    \/ OcrDate \/ OcrConfirmer \/ SaveDebugBbox \/ Return \/ Ended

Spec == Init /\ [][Next]_vars

(***************************************************************************)
(* Claims about a run of extract_inner_curvature                           *)
(***************************************************************************)
C2_Grid(row) == row.lu \o row.lc \o row.lb

\* the parse of what the sheet shows in sub-cell k (from 0) of row i
C2_ParseOfCell(i, k) ==
    LET seen == call.sheet[<< "cell", i, k >>]
    IN  Str(parse_numeric_cell(ocr_easy(seen.texts), seen.img).value)

\* C2: whatever the engine and the stroke heuristic return, the result has
\* exactly 3 rows, in ROW_BOXES order; in each row lu, lc and lb hold 4
\* strings each, and entry k of lu+lc+lb is the parse of grid sub-cell k: a
\* cell where nothing is recognized is "" at its own position and shifts no
\* later entry.
C2_TwelveCellsInPlace ==
    /\ Len(rows_out) <= Len(ROW_BOXES)
    /\ \A i \in 1..Len(rows_out) :
         Len(rows_out[i].lu) = 4 /\ Len(rows_out[i].lc) = 4 /\ Len(rows_out[i].lb) = 4
    /\ result # None =>
         /\ Len(Val(result).rows) = 3
         /\ \A i \in 1..3 :
              LET row == Val(result).rows[i]
              IN  /\ Len(row.lu) = 4 /\ Len(row.lc) = 4 /\ Len(row.lb) = 4
                  /\ \A k \in 0..11 : C2_Grid(row)[k + 1] = C2_ParseOfCell(i, k)
                  /\ \A k \in 0..11 :
                       call.sheet[<< "cell", i, k >>] = Nothing(<< "cell", i, k >>)
                           => C2_Grid(row)[k + 1] = ""
                  /\ row.part_number =
                       Str(clean_part_number(ocr_easy(call.sheet[<< "part", i, 0 >>].texts)))

\* a returned result whose first row has recognized cells after unrecognized ones
C2_Witness ==
    /\ pc = "done" /\ result # None
    /\ call.sheet = FilledSheet(0)
    /\ Val(result).rows[1].lu = << "+1", "+1.5", "0.3", "+1" >>
    /\ Val(result).rows[1].lc = << "", "", "+1", "+1.5" >>
    /\ Val(result).rows[3].lb = << "", "", "+1", "+1.5" >>

C8_HasInput == \E p \in job_dir : StartsWith(p.name, InputPrefix) /\ p.is_file

\* the position of a step in the order the sentence gives
C8_StatedPhase(st) ==
    CASE st.step = "LOCATE_INPUT" -> 0
      [] st.step = "RASTERIZE_PAGE" -> 1
      [] st.step \in {"CROP_DIAGRAM", "CROP_TABLE", "CROP_HEADER"} -> 2
      [] st.step = "OCR_HEADER" -> 3
      [] st.step = "CROP_TABLE_TITLE" -> 4
      [] st.step = "OCR_TITLE" -> 5
      [] st.step = "CROP_ROW" -> 10 * st.row
      [] st.step = "CROP_FIELDS" -> 10 * st.row + 1
      [] st.step = "SAVE_CROPS" -> 10 * st.row + 2
      [] st.step = "OCR_PART" -> 10 * st.row + 3
      [] st.step = "SPLIT_GRID" -> 10 * st.row + 4
      [] st.step = "OCR_PARSE_CELL" -> 10 * st.row + 5
      [] st.step = "OCR_DATE" -> 10 * st.row + 6
      [] st.step = "OCR_CONFIRMER" -> 10 * st.row + 7
      [] st.step \in {"RENDER_TABLE_DEBUG", "RENDER_DEBUG_BBOX"} -> 40
      [] st.step = "ASSEMBLE_RESULT" -> 41

\* C8 as stated: the run fails only for a missing input, before writing
\* anything, and otherwise all header crops come before all header OCR and
\* the debug overlays are rendered after the rows.
C8_StepsInStatedOrder ==
    /\ ~C8_HasInput => pc \in {"locate_input", "failed"} /\ files = {} /\ result = None
    /\ C8_HasInput => pc # "failed"
    /\ \A i \in DOMAIN trace : \A j \in DOMAIN trace :
         i < j => C8_StatedPhase(trace[i]) <= C8_StatedPhase(trace[j])

C8_HeaderSteps ==
    [n \in 1..(2 * Len(HeaderKeys)) |->
        IF n % 2 = 1 THEN Step("CROP_HEADER", HeaderKeys[(n + 1) \div 2], 0, 0)
        ELSE Step("OCR_HEADER", HeaderKeys[n \div 2], 0, 0)]

C8_RowSteps(i) ==
    << Step("CROP_ROW", "", i, 0), Step("CROP_FIELDS", "", i, 0),
       Step("SAVE_CROPS", "", i, 0), Step("OCR_PART", "", i, 0),
       Step("SPLIT_GRID", "", i, 0) >>
    \o [n \in 1..12 |-> Step("OCR_PARSE_CELL", "", i, n - 1)]
    \o << Step("OCR_DATE", "", i, 0), Step("OCR_CONFIRMER", "", i, 0) >>

C8_CodeOrder ==
    << Step("LOCATE_INPUT", "", 0, 0), Step("RASTERIZE_PAGE", "", 0, 0),
       Step("CROP_DIAGRAM", "", 0, 0), Step("CROP_TABLE", "", 0, 0) >>
    \o C8_HeaderSteps
    \o << Step("RENDER_TABLE_DEBUG", "", 0, 0), Step("CROP_TABLE_TITLE", "", 0, 0),
          Step("OCR_TITLE", "", 0, 0) >>
    \o C8_RowSteps(1) \o C8_RowSteps(2) \o C8_RowSteps(3)
    \o << Step("RENDER_DEBUG_BBOX", "", 0, 0), Step("ASSEMBLE_RESULT", "", 0, 0) >>

\* where the call stands when st is the next step to run
C8_At(st) ==
    CASE st.step = "LOCATE_INPUT" -> pc = "locate_input"
      [] st.step = "RASTERIZE_PAGE" -> pc = "rasterize_page"
      [] st.step = "CROP_DIAGRAM" -> pc = "crop_diagram"
      [] st.step = "CROP_TABLE" -> pc = "crop_table"
      [] st.step = "CROP_HEADER" -> pc = "crop_header" /\ HeaderKeys[hkey] = st.key
      [] st.step = "OCR_HEADER" -> pc = "ocr_header" /\ HeaderKeys[hkey] = st.key
      [] st.step = "RENDER_TABLE_DEBUG" -> pc = "save_table_debug"
      [] st.step = "CROP_TABLE_TITLE" -> pc = "crop_title"
      [] st.step = "OCR_TITLE" -> pc = "ocr_title"
      [] st.step = "CROP_ROW" -> pc = "crop_row" /\ idx = st.row
      [] st.step = "CROP_FIELDS" -> pc = "crop_fields" /\ idx = st.row
      [] st.step = "SAVE_CROPS" -> pc = "save_crops" /\ idx = st.row
      [] st.step = "OCR_PART" -> pc = "ocr_part" /\ idx = st.row
      [] st.step = "SPLIT_GRID" -> pc = "split_grid" /\ idx = st.row
      [] st.step = "OCR_PARSE_CELL" -> pc = "ocr_parse_cell" /\ idx = st.row /\ c = st.cell
      [] st.step = "OCR_DATE" -> pc = "ocr_date" /\ idx = st.row
      [] st.step = "OCR_CONFIRMER" -> pc = "ocr_confirmer" /\ idx = st.row
      [] st.step = "RENDER_DEBUG_BBOX" -> pc = "save_debug_bbox"
      [] st.step = "ASSEMBLE_RESULT" -> pc = "return"

\* C8, in the order of the code: the run fails only when the job directory
\* holds no regular file named input*, before anything is written and without
\* a result; otherwise, whatever the engine returns, it rasterizes the page,
\* crops diagram and table, crops and reads each header field in turn,
\* renders the table grid overlay, crops and reads the table title, handles
\* rows 1, 2, 3 (crop row, crop fields, save crops, OCR part, split grid and
\* parse the 12 cells, OCR date, OCR confirmer), renders the page overlay and
\* returns the assembled result: at every moment the steps done are the
\* beginning of that order and the call stands at the next one, and it holds
\* a result exactly when all of them are done.
C8_StepsInCodeOrder ==
    /\ ~C8_HasInput =>
         /\ pc \in {"locate_input", "failed"} /\ files = {} /\ result = None
         /\ trace = IF pc = "failed" THEN << Step("LOCATE_INPUT", "", 0, 0) >> ELSE << >>
    /\ C8_HasInput =>
         /\ pc # "failed"
         /\ Len(trace) <= Len(C8_CodeOrder)
         /\ trace = SubSeq(C8_CodeOrder, 1, Len(trace))
         /\ IF Len(trace) < Len(C8_CodeOrder)
            THEN C8_At(C8_CodeOrder[Len(trace) + 1]) /\ result = None
            ELSE pc = "done" /\ result # None

\* a run on a sheet where the engine recognizes nothing at all returns
C8_Witness ==
    /\ pc = "done" /\ result # None
    /\ call.sheet = BlankSheet
    /\ trace = C8_CodeOrder
    /\ \A i \in 1..3 : C2_Grid(Val(result).rows[i]) = [k \in 1..12 |-> ""]

C9_Names ==
    {"page0.png", "diagram.png", "table.png", "debug_bbox.png", "table_debug_grid.png"}
    \cup { "header_" \o HeaderKeys[k] \o ".png" : k \in 1..4 }
    \cup { kind \o "_row" \o ToString(i) \o ".png" :
             kind \in {"part", "date", "confirmer"}, i \in 1..3 }

C9_PathOf(name) == "/v1/jobs/" \o job_id \o "/asset/" \o name

\* every path the assets mapping holds
C9_Referenced(a) ==
    {a.page0_image, a.diagram_image, a.table_image, a.debug_bbox, a.table_debug_grid}
    \cup { a.header_crops[k] : k \in DOMAIN a.header_crops }
    \cup UNION { {a.row_crops[r].part, a.row_crops[r].date, a.row_crops[r].confirmer} :
                   r \in DOMAIN a.row_crops }

\* C9: when the call returns, the image files written are the 18 named ones
\* and are exactly the files the assets mapping refers to, each under the
\* job's id; header crops are keyed by field name, row crops by row index.
C9_FilesAreAssets ==
    pc = "done" =>
        LET a == Val(result).assets
        IN  /\ files = C9_Names
            /\ Cardinality(files) = 18
            /\ C9_Referenced(a) = { C9_PathOf(f) : f \in files }
            /\ DOMAIN a.header_crops = { HeaderKeys[k] : k \in 1..4 }
            /\ \A k \in 1..4 :
                 a.header_crops[HeaderKeys[k]] =
                    C9_PathOf("header_" \o HeaderKeys[k] \o ".png")
            /\ DOMAIN a.row_crops = {"row1", "row2", "row3"}
            /\ \A i \in 1..3 :
                 LET r == a.row_crops["row" \o ToString(i)]
                 IN  /\ r.part = C9_PathOf("part_row" \o ToString(i) \o ".png")
                     /\ r.date = C9_PathOf("date_row" \o ToString(i) \o ".png")
                     /\ r.confirmer = C9_PathOf("confirmer_row" \o ToString(i) \o ".png")

C9_Witness ==
    /\ pc = "done" /\ job_id = "job-png"
    /\ "confirmer_row3.png" \in files
    /\ Val(result).assets.row_crops["row3"].confirmer
         = "/v1/jobs/job-png/asset/confirmer_row3.png"
    /\ Val(result).assets.header_crops["orderer"]
         = "/v1/jobs/job-png/asset/header_orderer.png"

(***************************************************************************)
(* SpecOcr: get_easyocr_reader under concurrent extract requests           *)
(* extract is a plain def handler, so each request runs on its own worker  *)
(* thread.  functools.lru_cache looks the key up, and on a miss calls the  *)
(* wrapped function without holding any lock, then stores the result       *)
(* unless the key has appeared meanwhile, and returns the result of its    *)
(* own call either way.                                                    *)
(***************************************************************************)
MaxThreads == 2     \* requests in the process at the same time
MaxCalls == 2       \* ocr_easy calls of one request (47 in a real run)

Threads == 1..MaxThreads

InitOcr ==
    /\ FnIdle /\ PipeIdle
    /\ ocr_log = << >>
    /\ reader_cache = None
    /\ constructed = 0
    /\ thr = [t \in Threads |-> [pc |-> "idle", reader |-> None, calls |-> 0]]
    /\ used = {}

\* main.py extract: the request reaches its first ocr_easy call
StartExtract(t) ==
    /\ thr[t].pc = "idle"
    /\ thr' = [thr EXCEPT ![t].pc = "get_reader"]
    /\ UNCHANGED << fn_vars, pipe_vars, ocr_log, reader_cache, constructed, used >>

\* ocr_easy line 130, lru_cache: hit or miss
CacheLookup(t) ==
    /\ thr[t].pc = "get_reader"
    /\ thr' = IF reader_cache # None
              THEN [thr EXCEPT ![t].reader = reader_cache, ![t].pc = "readtext"]
              ELSE [thr EXCEPT ![t].pc = "construct"]
    /\ UNCHANGED << fn_vars, pipe_vars, ocr_log, reader_cache, constructed, used >>

\* ocr_engines.py line 9: easyocr.Reader(["en", "ja"], gpu=False), a new instance
ConstructReader(t) ==
    /\ thr[t].pc = "construct"
    /\ constructed' = constructed + 1
    /\ thr' = [thr EXCEPT ![t].reader = Some(constructed + 1), ![t].pc = "store"]
    /\ UNCHANGED << fn_vars, pipe_vars, ocr_log, reader_cache, used >>

\* lru_cache after the call: keep the entry that is there, else store; return own result
CacheStore(t) ==
    /\ thr[t].pc = "store"
    /\ reader_cache' = IF reader_cache = None THEN thr[t].reader ELSE reader_cache
    /\ thr' = [thr EXCEPT ![t].pc = "readtext"]
    /\ UNCHANGED << fn_vars, pipe_vars, ocr_log, constructed, used >>

\* ocr_easy line 140: reader.readtext, then the request's next ocr_easy call
ReadText(t) ==
    /\ thr[t].pc = "readtext"
    /\ used' = used \cup {Val(thr[t].reader)}
    /\ thr' = [thr EXCEPT ![t].calls = @ + 1, ![t].reader = None,
                          ![t].pc = IF thr[t].calls + 1 < MaxCalls
                                    THEN "get_reader" ELSE "done"]
    /\ UNCHANGED << fn_vars, pipe_vars, ocr_log, reader_cache, constructed >>

NextOcr ==
    \E t \in Threads :
        \/ StartExtract(t) \/ CacheLookup(t) \/ ConstructReader(t)
        \/ CacheStore(t) \/ ReadText(t)

SpecOcr == InitOcr /\ [][NextOcr]_vars

\* C10: across every interleaving of extraction calls the engine is
\* constructed exactly once, on the first use and not before, and every
\* ocr_easy call of every job runs on that one instance.
C10_EngineConstructedOnce ==
    /\ constructed <= 1
    /\ Cardinality(used) <= 1
    /\ (\A t \in Threads : thr[t].pc = "idle") => constructed = 0
    /\ (\E t \in Threads : thr[t].pc \in {"store", "readtext", "done"}) => constructed >= 1

====
